---- MODULE Spec2Model ----
(***************************************************************************)
(* Task lifecycle and callback reconciliation of the AI video server       *)
(* (src/server/src/index.js): the Redis task store, createOne and the      *)
(* create / batch_create routes, the provider callback, the background     *)
(* artifact download, status lookup and deletion.                          *)
(*                                                                         *)
(* One step of the model is one Redis command (or MULTI transaction)       *)
(* together with the synchronous JavaScript that runs before the next      *)
(* await: handlers of different requests interleave at their awaits.       *)
(***************************************************************************)
EXTENDS Integers, Sequences, FiniteSets, TLC

VARIABLES
    tasks,      \* Redis aiVideo:task:<localTaskId>: local id -> task record (live keys only)
    map,        \* Redis aiVideo:map:<kieTaskId>: provider id -> local id (live keys only)
    recent,     \* Redis sorted set aiVideo:recent: its members (score = createdAt of the member)
    clock,      \* the highest local id generated so far (ids are numbered as generated)
    issued,     \* number of task ids the provider has handed out
    inv,        \* createOne invocations: slot -> record
    cb,         \* callback handlers: slot -> record
    reqs,       \* number of requests received and keys expired so far
    dl,         \* background downloads still running
    del,        \* handlers of DELETE /api/tasks/:id
    batch,      \* the batch_create request
    list,       \* the handler of GET /api/video/list
    lastCb,     \* history: per local id, the terminal callback last saved and how often in a row
    http        \* the HTTP response sent by the step just taken (NoHttp when it sent none)

vars == <<tasks, map, recent, clock, issued, inv, cb, reqs, dl, del, batch, list, lastCb, http>>
store == <<tasks, map, recent>>

----------------------------------------------------------------------------
(* Bounds of the model *)

MaxEvents == 3       \* requests received and keys expired over a run of Spec
MaxJobs == 2         \* jobs of the batch request of SpecBatch

InvSlots == 1..MaxJobs
CbSlots == {1, 2}
DelSlots == {1}
NoId == 0            \* an absent / empty id

----------------------------------------------------------------------------
(* JavaScript values that reach Number(): undefined, null, numbers, strings *)

Undef == [t |-> "undefined", n |-> 0, s |-> ""]
JsNull == [t |-> "null", n |-> 0, s |-> ""]
Num(k) == [t |-> "num", n |-> k, s |-> ""]
Str(x) == [t |-> "str", n |-> 0, s |-> x]
Half(k) == [t |-> "half", n |-> k, s |-> ""]     \* the number k + 1/2

\* Number(v): NaN is [nan |-> TRUE]; the number is n, or n + 1/2 with half
ToNumber(v) ==
    CASE v.t = "undefined" -> [nan |-> TRUE, n |-> 0, half |-> FALSE]
      [] v.t = "null" -> [nan |-> FALSE, n |-> 0, half |-> FALSE]
      [] v.t = "num" -> [nan |-> FALSE, n |-> v.n, half |-> FALSE]
      [] v.t = "half" -> [nan |-> FALSE, n |-> v.n, half |-> TRUE]
      [] v.s = "" -> [nan |-> FALSE, n |-> 0, half |-> FALSE]
      [] v.s = "0" -> [nan |-> FALSE, n |-> 0, half |-> FALSE]
      [] v.s = "1" -> [nan |-> FALSE, n |-> 1, half |-> FALSE]
      [] v.s = "2" -> [nan |-> FALSE, n |-> 2, half |-> FALSE]
      [] v.s = "-3" -> [nan |-> FALSE, n |-> -3, half |-> FALSE]
      [] v.s = "500" -> [nan |-> FALSE, n |-> 500, half |-> FALSE]
      [] v.s = "5" -> [nan |-> FALSE, n |-> 5, half |-> FALSE]
      [] v.s = "10" -> [nan |-> FALSE, n |-> 10, half |-> FALSE]
      [] OTHER -> [nan |-> TRUE, n |-> 0, half |-> FALSE]

\* Number(v) || d, its integer part
NumberOr(v, d) == LET x == ToNumber(v) IN IF x.nan \/ (x.n = 0 /\ ~x.half) THEN d ELSE x.n

Min(a, b) == IF a < b THEN a ELSE b
Max(a, b) == IF a > b THEN a ELSE b

\* Math.min(Math.max(Number(v) || d, lo), hi), its integer part
Clamp(v, d, lo, hi) == Min(Max(NumberOr(v, d), lo), hi)

\* Math.min and Math.max do not round: the result is Clamp + 1/2 for a value
\* n + 1/2 that lies between lo and hi
ClampHalf(v, d, lo, hi) ==
    LET x == ToNumber(v) IN ~x.nan /\ x.half /\ x.n >= lo /\ x.n < hi

Null == "null"       \* a null / undefined / empty string-valued field

----------------------------------------------------------------------------
(* Task store *)

NoParams == [mode |-> Null, prompt |-> Null, image_url |-> Null, image_urls |-> <<>>,
             duration |-> Undef, aspect_ratio |-> Null, batchCount |-> 0]

NoTask == [localTaskId |-> NoId, createdAt |-> 0, mode |-> Null, prompt |-> Null,
           status |-> Null, progress |-> 0, video_url |-> Null,
           origin_video_url |-> Null, error |-> Null, kieTaskId |-> NoId,
           params |-> NoParams]

\* getTask(localTaskId): the parsed record, or NoTask for a missing key
getTask(db, L) == IF L \in DOMAIN db THEN db[L] ELSE NoTask

\* redisClient.get(mapKey(kieTaskId))
getMap(m, k) == IF k \in DOMAIN m THEN m[k] ELSE NoId

Put(f, k, v) == [x \in (DOMAIN f) \cup {k} |-> IF x = k THEN v ELSE f[x]]
Drop(f, k) == [x \in (DOMAIN f) \ {k} |-> f[x]]

\* mutant of saveTaskMap: the mapping entry is never written
saveTaskMapNever(m, task) == m

\* saveTask writes the map key only for a truthy kieTaskId
saveTaskMap(m, task) == IF task.kieTaskId # NoId THEN Put(m, task.kieTaskId, task.localTaskId) ELSE m

\* mutant of saveTaskRecent: the recency entry is never written
saveTaskRecentNever(r, task, refreshRecent) == r

\* saveTask adds the recency entry only when asked to
saveTaskRecent(r, task, refreshRecent) == IF refreshRecent THEN r \cup {task.localTaskId} ELSE r

\* the three key spaces as one value
Store == [tasks |-> tasks, map |-> map, recent |-> recent]
Commit(s) == tasks' = s.tasks /\ map' = s.map /\ recent' = s.recent

\* saveTask(task, {refreshRecent}): one MULTI transaction
saveTask(s, task, refreshRecent) ==
    [tasks |-> Put(s.tasks, task.localTaskId, task),
     map |-> saveTaskMap(s.map, task),
     recent |-> saveTaskRecent(s.recent, task, refreshRecent)]

----------------------------------------------------------------------------
(* HTTP responses *)

\* route and status code; taskId: the data.taskId of the callback answered;
\* ids: the task_ids of a create response; accepted, concurrency, results: the
\* body of a batch response; job: the body of the create request answered;
\* (of the list request: its query); body: the JSON object a create or list
\* response carries, field name -> value
NoHttp == [route |-> "none", code |-> 0, taskId |-> NoId, ids |-> <<>>,
           accepted |-> 0, concurrency |-> 0, results |-> <<>>,
           job |-> <<>>, body |-> <<>>]
Reply(route, code) == [NoHttp EXCEPT !.route = route, !.code = code]

----------------------------------------------------------------------------
(* createOne: validation *)

NoList == [isArray |-> FALSE, items |-> <<>>]
List(xs) == [isArray |-> TRUE, items |-> xs]

Job(mode, prompt, image_url, image_urls, duration, aspect_ratio, batchCount) ==
    [mode |-> mode, prompt |-> prompt, image_url |-> image_url, image_urls |-> image_urls,
     duration |-> duration, aspect_ratio |-> aspect_ratio, batchCount |-> batchCount]

\* the job bodies the model submits
JobInputs ==
    { Job("t2v", "p", Null, NoList, Undef, Null, Undef),
      Job("t2v", "p", Null, NoList, Num(10), "portrait", Num(2)),
      Job("i2v", "p", Null, NoList, Num(5), "16:9", Num(1)),
      Job("t2v", Null, Null, NoList, Num(5), "16:9", Num(2)),
      Job("t2v", "p", Null, NoList, Num(7), "16:9", Num(1)) }

\* ensureAbsoluteUrl on the abstract urls: a falsy value is returned as it is,
\* a blank one trims to the empty string, any other stays a non-empty url
ensureAbsoluteUrl(u) == IF u = Null \/ u = " " THEN Null ELSE u

Truthy(u) == u # Null

resolveImageUrls(image_url, image_urls) ==
    IF image_urls.isArray
    THEN LET kept == SelectSeq(image_urls.items, Truthy)
         IN [i \in 1..Len(kept) |-> ensureAbsoluteUrl(kept[i])]
    ELSE IF image_url # Null THEN <<ensureAbsoluteUrl(image_url)>>
    ELSE <<>>

\* the keys every object literal inherits from Object.prototype
ObjectPrototypeKeys == {"constructor", "toString", "valueOf", "hasOwnProperty", "__proto__"}

\* aspectRatioMap[aspect_ratio]: a property lookup on an object literal, which
\* also finds the inherited properties (functions and objects, all truthy);
\* Null when the lookup gives undefined
aspectRatioMap(a) ==
    CASE a \in {"16:9", "landscape"} -> "landscape"
      [] a \in {"9:16", "portrait"} -> "portrait"
      [] a \in {"1:1", "square"} -> "square"
      [] a \in ObjectPrototypeKeys -> "inherited"
      [] OTHER -> Null

\* frameMap[Number(duration)], Null when the key is not in the table
frameMap(d) ==
    LET x == ToNumber(d)
    IN CASE x.nan -> Null
         [] x.n \in {5, 10} -> "10"
         [] x.n = 15 -> "15"
         [] OTHER -> Null

\* destructuring defaults: duration = 5, aspect_ratio = "16:9", batchCount = 1
WithDefaults(job) ==
    [job EXCEPT !.duration = IF @ = Undef THEN Num(5) ELSE @,
                !.aspect_ratio = IF @ = Null THEN "16:9" ELSE @,
                !.batchCount = IF @ = Undef THEN Num(1) ELSE @]

\* the 400 createOne throws for the job, Null when it passes validation
ValidationError(job0) ==
    LET job == WithDefaults(job0)
    IN CASE job.mode = Null \/ job.prompt = Null -> "Missing required fields"
         [] job.mode \notin {"t2v", "i2v"} -> "Invalid mode"
         [] job.mode = "i2v" /\ Len(resolveImageUrls(job.image_url, job.image_urls)) = 0 ->
                "image_url or image_urls is required for i2v"
         [] aspectRatioMap(job.aspect_ratio) = Null -> "Invalid aspect_ratio"
         [] frameMap(job.duration) = Null -> "Invalid duration"
         [] OTHER -> Null

\* Math.min(Math.max(Number(batchCount) || 1, 1), 20)
normalizedBatchCount(job) == Clamp(WithDefaults(job).batchCount, 1, 1, 20)

\* the input of the provider request as JSON.stringify sends it: a property
\* whose value is a function is left out, image_urls is set for i2v only
taskPayload(job0) ==
    LET job == WithDefaults(job0)
    IN [aspect_ratio |-> aspectRatioMap(job.aspect_ratio),
        n_frames |-> frameMap(job.duration),
        image_urls |-> IF job.mode = "i2v" THEN resolveImageUrls(job.image_url, job.image_urls)
                       ELSE <<>>]

----------------------------------------------------------------------------
(* createOne: provider calls and persistence *)

NoErr == [statusCode |-> 0, message |-> Null]
ApiError(code, msg) == [statusCode |-> code, message |-> msg]

IdleInv == [pc |-> "idle", route |-> "none", job |-> Job(Null, Null, Null, NoList, Undef, Null, Undef),
            n |-> 0, inflight |-> 0, ids |-> <<>>, err |-> NoErr, task_ids |-> <<>>]

\* how one kieClient.createTask call can end
ProviderOutcomes == {"ok", "http_error", "bad_code", "no_task_id", "rejected"}

\* what kieClient.createTask throws: ApiError(502) for a non-2xx response and for
\* a body without code 200 or without taskId; a rejected fetch is rethrown as it
\* is, an Error without statusCode
createTaskError(outcome) ==
    CASE outcome = "http_error" -> ApiError(502, "Kie API error: text")
      [] outcome \in {"bad_code", "no_task_id"} -> ApiError(502, "Kie API error")
      [] outcome = "rejected" -> ApiError(0, "fetch failed")
      [] OTHER -> NoErr

\* the params createOne stores with the task (remove_watermark is the constant
\* true, character_id_list is not part of the job bodies here)
taskParams(job0) ==
    LET job == WithDefaults(job0)
        resolvedImageUrls == resolveImageUrls(job.image_url, job.image_urls)
    IN [mode |-> job.mode, prompt |-> job.prompt,
        image_url |-> IF Len(resolvedImageUrls) >= 1 /\ resolvedImageUrls[1] # Null
                      THEN resolvedImageUrls[1] ELSE Null,
        image_urls |-> resolvedImageUrls,
        duration |-> job.duration, aspect_ratio |-> job.aspect_ratio,
        batchCount |-> normalizedBatchCount(job0)]

\* the task record createOne builds for one provider task id
NewTask(localTaskId, kieTaskId, job) ==
    [localTaskId |-> localTaskId, createdAt |-> localTaskId, mode |-> job.mode,
     prompt |-> job.prompt, status |-> "queued", progress |-> 0, video_url |-> Null,
     origin_video_url |-> Null, error |-> Null, kieTaskId |-> kieTaskId,
     params |-> taskParams(job)]

\* createOne persists one task per provider id, each with refreshRecent, under
\* the local ids generated for them
RECURSIVE saveNewTasks(_, _, _, _)
saveNewTasks(s, ids, job, locals) ==
    IF ids = <<>> THEN s
    ELSE saveNewTasks(saveTask(s, NewTask(Head(locals), Head(ids), job), TRUE),
                      Tail(ids), job, Tail(locals))

\* `task_${Date.now()}_${Math.random().toString(36).slice(2, 8)}`, n times:
\* FreshIds are generated values that differ from each other and from every
\* earlier one; AnyIds are all the values the two calls can produce, those
\* generated before included
FreshIds(n) == [k \in 1..n |-> clock + k]
AnyIds(n) == [1..n -> 1..(clock + n)]

RECURSIVE MaxOf(_)
MaxOf(xs) == IF xs = <<>> THEN 0 ELSE Max(Head(xs), MaxOf(Tail(xs)))

\* the { localTaskId, kieTaskId, status } entries createOne returns
createdTasks(r) ==
    [k \in 1..Len(r.task_ids) |->
        [localTaskId |-> r.task_ids[k], kieTaskId |-> r.ids[k], status |-> "queued"]]

\* the response of POST /api/video/create
createResponse(r) ==
    IF r.err.message = Null
    THEN [Reply("create", 200) EXCEPT !.ids = r.task_ids, !.job = r.job,
                                      !.body = [task_ids |-> r.task_ids, tasks |-> createdTasks(r)]]
    ELSE [Reply("create", IF r.err.statusCode # 0 THEN r.err.statusCode ELSE 500)
             EXCEPT !.job = r.job, !.body = [error |-> r.err.message]]

\* createOne has returned or thrown: the create route answers and its request
\* is over (calls still in flight are all that is left of it); a batch job keeps
\* its outcome for the batch response and leaves the limiter
Finish(i, r) ==
    IF r.route = "create"
    THEN /\ inv' = [inv EXCEPT ![i] = [IdleInv EXCEPT !.pc = "done", !.inflight = r.inflight]]
         /\ http' = createResponse(r)
         /\ UNCHANGED batch
    ELSE /\ inv' = [inv EXCEPT ![i] = [r EXCEPT !.pc = "done"]]
         /\ http' = NoHttp
         /\ batch' = [batch EXCEPT !.order = Append(@, i)]

\* createOne up to its first await: validation, then normalizedBatchCount
\* provider calls issued at once
createOneStart(i, route, job) ==
    LET e == ValidationError(job)
        n == normalizedBatchCount(job)
        r == [IdleInv EXCEPT !.route = route, !.job = job]
    IN IF e # Null
       THEN Finish(i, [r EXCEPT !.err = ApiError(400, e)])
       ELSE /\ inv' = [inv EXCEPT ![i] = [r EXCEPT !.pc = "calls", !.n = n, !.inflight = n]]
            /\ http' = NoHttp
            /\ UNCHANGED batch

\* mutant of onReject: the tasks of the calls that did succeed are kept
onRejectKeepsFulfilled(i, r) ==
    /\ Commit(saveNewTasks(Store, r.ids, r.job, FreshIds(Len(r.ids))))
    /\ clock' = clock + Len(r.ids)
    /\ Finish(i, r)

\* a provider call failed while createOne awaits Promise.all: createOne throws
\* what the call threw and never reaches its saveTask calls
onReject(i, r) ==
    /\ Finish(i, r)
    /\ UNCHANGED <<tasks, map, recent, clock>>

\* Promise.all over the provider calls: the first rejection rejects createOne,
\* the n-th fulfilment lets it go on to persist; replies to a createOne that
\* has already thrown are dropped
onProviderReply(i, outcome) ==
    LET r0 == inv[i]
        kie == issued + 1
        r == [r0 EXCEPT !.inflight = @ - 1,
                        !.ids = IF outcome = "ok" /\ r0.pc = "calls" THEN Append(@, kie) ELSE @]
    IN /\ issued' = IF outcome = "ok" THEN kie ELSE issued
       /\ IF r0.pc # "calls"
          THEN /\ inv' = [inv EXCEPT ![i] = r]
               /\ http' = NoHttp
               /\ UNCHANGED <<batch, tasks, map, recent, clock>>
          ELSE IF outcome # "ok"
          THEN onReject(i, [r EXCEPT !.err = createTaskError(outcome)])
          ELSE /\ inv' = [inv EXCEPT ![i] = [r EXCEPT !.pc = IF Len(r.ids) = r.n THEN "save" ELSE "calls"]]
               /\ http' = NoHttp
               /\ UNCHANGED <<batch, tasks, map, recent, clock>>

ProviderReply(i, outcome) ==
    /\ inv[i].inflight > 0
    /\ onProviderReply(i, outcome)
    /\ UNCHANGED <<cb, reqs, dl, del, list, lastCb>>

\* the saveTask transactions of one createOne are issued in the same tick on
\* the one Redis connection and createOne returns on their replies: one step
persistAs(i, locals) ==
    /\ inv[i].pc = "save"
    /\ LET r == inv[i]
       IN /\ Commit(saveNewTasks(Store, r.ids, r.job, locals))
          /\ clock' = Max(clock, MaxOf(locals))
          /\ Finish(i, [r EXCEPT !.task_ids = locals])
    /\ UNCHANGED <<issued, cb, reqs, dl, del, list, lastCb>>

\* the ids generated do not collide
CreatePersist(i) == persistAs(i, FreshIds(inv[i].n))

\* the ids generated are any the generator can produce
CreatePersistAny(i) == \E locals \in AnyIds(inv[i].n) : persistAs(i, locals)

\* POST /api/video/create
CreateRequest(i, job) ==
    /\ batch.pc = "none"
    /\ inv[i].pc \in {"idle", "done"}
    /\ inv[i].inflight = 0
    /\ reqs < MaxEvents
    /\ reqs' = reqs + 1
    /\ createOneStart(i, "create", job)
    /\ UNCHANGED <<tasks, map, recent, clock, issued, cb, dl, del, list, lastCb>>

----------------------------------------------------------------------------
(* POST /api/callback *)

\* data.resultJson, by shape: kind and the url it carries
ResultJson(kind, url) == [kind |-> kind, url |-> url]
NoResult == ResultJson("absent", Null)

\* parseResultVideoUrl(rawResultJson)
parseResultVideoUrl(rj) ==
    CASE rj.kind = "absent" -> Null                       \* undefined, null, ""
      [] rj.kind = "http_text" -> rj.url                  \* not JSON, starts with http
      [] rj.kind = "garbage" -> Null                      \* not JSON, no url
      [] rj.kind = "json_scalar" -> Null                  \* JSON, not an object
      [] rj.kind \in {"json_urls", "object_urls"} -> rj.url     \* resultUrls: [url, ...], [] gives null
      [] rj.kind \in {"json_url", "object_url"} -> rj.url       \* resultUrl: "url"
      [] OTHER -> Null

\* normalizeTaskStatus(status): lower case, then the two alias tables
normalizeTaskStatus(raw) ==
    CASE raw = Null -> Null
      [] raw \in {"success", "SUCCESS", "succeeded", "completed", "complete", "done"} -> "success"
      [] raw \in {"fail", "FAIL", "failed", "failure", "error", "errored"} -> "fail"
      [] raw = "RUNNING" -> "running"
      [] OTHER -> raw

Event(taskId, state, progress, resultJson, failMsg, msg, failCode) ==
    [taskId |-> taskId, state |-> state, progress |-> progress, resultJson |-> resultJson,
     failMsg |-> failMsg, msg |-> msg, failCode |-> failCode]

\* the callback bodies the model delivers for provider id k
CallbackEvents(k) ==
    { Event(k, st, Undef, NoResult, Null, Null, Null) : st \in {"queued", "running"} }
    \cup { Event(k, "success", Undef, rj, Null, Null, Null) :
        rj \in {NoResult, ResultJson("json_urls", "u1")} }
    \cup { Event(k, "fail", Undef, NoResult, Null, m, m) : m \in {Null, "m"} }

Or(a, b) == IF a # Null THEN a ELSE b

\* mutant of failureMessage: the code is preferred to the messages
failureMessageCodeFirst(ev) == Or(ev.failCode, Or(ev.failMsg, Or(ev.msg, "Kie task failed")))

\* failMsg || msg || failCode || "Kie task failed", lines 792-796
failureMessage(ev) == Or(ev.failMsg, Or(ev.msg, Or(ev.failCode, "Kie task failed")))

\* mutant of ApplyCallback: a terminal state already stored is reported as a
\* duplicate in the error field
ApplyCallbackFlagsDuplicate(task, ev) ==
    LET state == normalizeTaskStatus(ev.state)
        np == ToNumber(ev.progress)
        originUrl == parseResultVideoUrl(ev.resultJson)
        t1 == [task EXCEPT !.status = IF state # Null THEN state ELSE @,
                           !.progress = IF state = "success" THEN 100
                                        ELSE IF ~np.nan THEN np.n ELSE @,
                           !.origin_video_url = IF state = "success" /\ originUrl # Null
                                                THEN originUrl ELSE @]
    IN CASE state \in {"success", "fail"} /\ task.status = state ->
              [t1 EXCEPT !.error = "Duplicate callback"]
         [] state = "success" /\ originUrl = Null ->
              [t1 EXCEPT !.error = Or(@, "Missing origin video url in callback")]
         [] state = "fail" ->
              [t1 EXCEPT !.error = Or(ev.failMsg, Or(ev.msg, Or(ev.failCode, "Kie task failed")))]
         [] OTHER -> t1

\* mutant of ApplyCallback: a success keeps the progress the event carried
ApplyCallbackKeepsProgress(task, ev) ==
    LET state == normalizeTaskStatus(ev.state)
        np == ToNumber(ev.progress)
        t1 == [task EXCEPT !.status = IF state # Null THEN state ELSE @,
                           !.progress = IF ~np.nan THEN np.n ELSE @]
        originUrl == parseResultVideoUrl(ev.resultJson)
    IN CASE state = "success" ->
              [t1 EXCEPT !.origin_video_url = IF originUrl # Null THEN originUrl ELSE @,
                         !.error = IF originUrl # Null THEN @
                                   ELSE Or(@, "Missing origin video url in callback")]
         [] state = "fail" ->
              [t1 EXCEPT !.error = Or(ev.failMsg, Or(ev.msg, Or(ev.failCode, "Kie task failed")))]
         [] OTHER -> t1

\* the fields the handler sets on the record it read, lines 767-797
ApplyCallback(task, ev) ==
    LET state == normalizeTaskStatus(ev.state)
        np == ToNumber(ev.progress)
        t1 == [task EXCEPT !.status = IF state # Null THEN state ELSE @,
                           !.progress = IF ~np.nan THEN np.n ELSE @]
        originUrl == parseResultVideoUrl(ev.resultJson)
    IN CASE state = "success" ->
              [t1 EXCEPT !.progress = 100,
                         !.origin_video_url = IF originUrl # Null THEN originUrl ELSE @,
                         !.error = IF originUrl # Null THEN @
                                   ELSE Or(@, "Missing origin video url in callback")]
         [] state = "fail" -> [t1 EXCEPT !.error = failureMessage(ev)]
         [] OTHER -> t1

\* mutant of StartsDownload: no callback starts a download
StartsDownloadNever(ev) == FALSE

\* mutant of StartsDownload: every success starts a download
StartsDownloadOnEverySuccess(ev) == normalizeTaskStatus(ev.state) = "success"

\* void downloadAndPersistVideo(...) is reached for a success with a url only
StartsDownload(ev) ==
    normalizeTaskStatus(ev.state) = "success" /\ parseResultVideoUrl(ev.resultJson) # Null

IdleCb == [pc |-> "idle", ev |-> Event(NoId, Null, Undef, NoResult, Null, Null, Null),
           local |-> NoId, snap |-> NoTask]

Download(local, url) == [pc |-> "fetch", local |-> local, url |-> url, snap |-> NoTask]

\* the downloads still running, without the d-th
Without(ds, d) == [x \in 1..(Len(ds) - 1) |-> IF x < d THEN ds[x] ELSE ds[x + 1]]

CallbackReply(ev, code) == [Reply("callback", code) EXCEPT !.taskId = ev.taskId]

\* the fields of a task a client sees change under callbacks
Visible(task) == <<task.status, task.progress, task.origin_video_url, task.error>>
Terminal(ev) == normalizeTaskStatus(ev.state) \in {"success", "fail"}

\* mutant of replyAfterSave: the handler awaits the download it started
replyAfterDownload(ev) == IF StartsDownload(ev) THEN NoHttp ELSE CallbackReply(ev, 200)

\* res.json({ ok: true }) on the reply of saveTask, lines 784-800
replyAfterSave(ev) == CallbackReply(ev, 200)

\* lines 751-753: a body without data.taskId
onMissingTaskId(ev) == http' = CallbackReply(ev, 400)

\* mutant of onLookupMiss: an unknown task is reported to the provider
onLookupMiss404(ev) == http' = CallbackReply(ev, 404) /\ UNCHANGED <<tasks, map, recent, dl>>

\* lines 755-765: no mapping entry, or no record under the mapped id
onLookupMiss(ev) == http' = CallbackReply(ev, 200) /\ UNCHANGED <<tasks, map, recent, dl>>

\* the request arrives; up to the reply of redisClient.get(mapKey(kieTaskId))
CbReceive(h, ev) ==
    /\ cb[h].pc = "idle"
    /\ \A g \in CbSlots : g < h => cb[g].pc # "idle"
    /\ reqs < MaxEvents
    /\ reqs' = reqs + 1
    /\ IF ev.taskId = NoId THEN onMissingTaskId(ev) /\ UNCHANGED <<cb, tasks, map, recent, dl>>
       ELSE IF getMap(map, ev.taskId) = NoId THEN onLookupMiss(ev) /\ UNCHANGED cb
       ELSE /\ cb' = [cb EXCEPT ![h] = [IdleCb EXCEPT !.pc = "task", !.ev = ev,
                                                     !.local = getMap(map, ev.taskId)]]
            /\ http' = NoHttp
            /\ UNCHANGED <<tasks, map, recent, dl>>
    /\ UNCHANGED <<clock, issued, inv, del, list, batch, lastCb>>

\* the reply of getTask(localTaskId)
CbGetTask(h) ==
    /\ cb[h].pc = "task"
    /\ LET t == getTask(tasks, cb[h].local)
       IN IF t = NoTask
          THEN onLookupMiss(cb[h].ev) /\ cb' = [cb EXCEPT ![h] = IdleCb]
          ELSE /\ cb' = [cb EXCEPT ![h].pc = "save", ![h].snap = t]
               /\ http' = NoHttp
               /\ UNCHANGED <<tasks, map, recent, dl>>
    /\ UNCHANGED <<clock, issued, inv, reqs, del, list, batch, lastCb>>

\* history of C5: the same terminal event saved again on the record the
\* previous delivery left
nextLastCb(L, ev, snap, new) ==
    IF ~Terminal(ev) THEN Drop(lastCb, L)
    ELSE IF L \in DOMAIN lastCb /\ lastCb[L].ev = ev /\ L \in DOMAIN tasks /\ tasks[L] = snap
    THEN [lastCb EXCEPT ![L].n = 2]
    ELSE Put(lastCb, L, [ev |-> ev, n |-> 1, after |-> Visible(new)])

\* saveTask(task) of the updated snapshot, the detached download, the response
CbSave(h) ==
    /\ cb[h].pc = "save"
    /\ LET ev == cb[h].ev
           new == ApplyCallback(cb[h].snap, ev)
       IN /\ Commit(saveTask(Store, new, FALSE))
          /\ dl' = IF StartsDownload(ev)
                   THEN Append(dl, Download(cb[h].local, parseResultVideoUrl(ev.resultJson)))
                   ELSE dl
          /\ lastCb' = nextLastCb(new.localTaskId, ev, cb[h].snap, new)
          /\ http' = replyAfterSave(ev)
    /\ cb' = [cb EXCEPT ![h] = IdleCb]
    /\ UNCHANGED <<clock, issued, inv, reqs, del, list, batch>>

----------------------------------------------------------------------------
(* downloadAndPersistVideo *)

\* mutant of applyDownload: the record is stamped again when the file is stored
applyDownloadStampsCreatedAt(task, ok) ==
    IF ok THEN [task EXCEPT !.video_url = "file", !.createdAt = @ + 1]
    ELSE [task EXCEPT !.error = Or(@, "Failed to download video")]

\* what each branch of downloadAndPersistVideo sets on the record it read
applyDownload(task, ok) ==
    IF ok THEN [task EXCEPT !.video_url = "file"]
    ELSE [task EXCEPT !.error = Or(@, "Failed to download video")]

\* downloadVideo has resolved or thrown; up to the reply of getTask, which both
\* branches issue alike: which of the two ran shows in the save that follows
DlGetTask(d) ==
    /\ d \in DOMAIN dl
    /\ dl[d].pc = "fetch"
    /\ LET t == getTask(tasks, dl[d].local)
       IN dl' = IF t = NoTask THEN Without(dl, d)
                ELSE [dl EXCEPT ![d] = [@ EXCEPT !.pc = "save", !.snap = t]]
    /\ http' = NoHttp
    /\ UNCHANGED <<tasks, map, recent, clock, issued, inv, cb, reqs, del, list, batch, lastCb>>

DlSave(d, ok) ==
    /\ d \in DOMAIN dl
    /\ dl[d].pc = "save"
    /\ Commit(saveTask(Store, applyDownload(dl[d].snap, ok), FALSE))
    /\ dl' = Without(dl, d)
    /\ lastCb' = Drop(lastCb, dl[d].local)
    /\ http' = NoHttp
    /\ UNCHANGED <<clock, issued, inv, cb, reqs, del, list, batch>>

----------------------------------------------------------------------------
(* GET /api/video/status, DELETE /api/tasks/:id, key expiry *)

\* the body of GET /api/video/status?task_id=L over the task keys db
statusLookup(db, L) ==
    LET t == getTask(db, L)
    IN IF t = NoTask
       THEN [code |-> 404, status |-> Null, progress |-> 0, video_url |-> Null, error |-> Null]
       ELSE [code |-> 200, status |-> t.status, progress |-> t.progress,
             video_url |-> t.video_url, error |-> t.error]

IdleDel == [pc |-> "idle", id |-> NoId, kieTaskId |-> NoId]

\* up to the reply of getTask(localTaskId)
DeleteRequest(h, L) ==
    /\ del[h].pc = "idle"
    /\ reqs < MaxEvents
    /\ reqs' = reqs + 1
    /\ LET t == getTask(tasks, L)
       IN IF t = NoTask
          THEN /\ http' = [Reply("delete", 404) EXCEPT !.job = [id |-> L],
                                                        !.body = [error |-> "Task not found"]]
               /\ UNCHANGED del
          ELSE /\ del' = [del EXCEPT ![h] = [pc |-> "exec", id |-> L, kieTaskId |-> t.kieTaskId]]
               /\ http' = NoHttp
    /\ UNCHANGED <<tasks, map, recent, clock, issued, inv, cb, dl, batch, lastCb, list>>

\* mutant of deleteKeys: the recency entry stays
deleteKeysKeepsRecent(s, localTaskId, kieTaskId) ==
    [tasks |-> Drop(s.tasks, localTaskId),
     map |-> IF kieTaskId # NoId THEN Drop(s.map, kieTaskId) ELSE s.map,
     recent |-> s.recent]

\* the MULTI of del(taskKey), zRem(recentKey), del(mapKey)
deleteKeys(s, localTaskId, kieTaskId) ==
    [tasks |-> Drop(s.tasks, localTaskId),
     map |-> IF kieTaskId # NoId THEN Drop(s.map, kieTaskId) ELSE s.map,
     recent |-> s.recent \ {localTaskId}]

\* the MULTI is executed; on its reply the response
DeleteExec(h) ==
    /\ del[h].pc = "exec"
    /\ Commit(deleteKeys(Store, del[h].id, del[h].kieTaskId))
    /\ lastCb' = Drop(lastCb, del[h].id)
    /\ http' = [Reply("delete", 200) EXCEPT !.job = [id |-> del[h].id],
                                            !.body = [success |-> TRUE, id |-> del[h].id]]
    /\ del' = [del EXCEPT ![h] = IdleDel]
    /\ UNCHANGED <<clock, issued, inv, cb, reqs, dl, batch, list>>

\* the task key and its map key are set with the same EX in one MULTI by
\* every saveTask, so they expire together
ExpireTask(L) ==
    /\ L \in DOMAIN tasks
    /\ reqs < MaxEvents
    /\ reqs' = reqs + 1
    /\ tasks' = Drop(tasks, L)
    /\ map' = Drop(map, tasks[L].kieTaskId)
    /\ lastCb' = Drop(lastCb, L)
    /\ http' = NoHttp
    /\ UNCHANGED <<recent, clock, issued, inv, cb, dl, del, list, batch>>

\* a record that differs from the one createOne wrote was saved again later,
\* which set the TTL of its keys anew
SavedSinceCreate(task) ==
    \/ task.status # "queued" \/ task.progress # 0
    \/ task.video_url # Null \/ task.origin_video_url # Null \/ task.error # Null

\* the sorted set is one key: its TTL is refreshed by creations only (199). It
\* expires TASK_TTL_SECONDS after the last creation, together with the keys of
\* the tasks that were not saved since. SavedSinceCreate tells these apart in
\* a run with one creation, which is how NextRecent uses the action
ExpireRecent ==
    /\ recent # {}
    /\ \A i \in InvSlots : inv[i].pc \in {"idle", "done"}
    /\ recent' = {}
    /\ LET kept == {L \in DOMAIN tasks : SavedSinceCreate(tasks[L])}
       IN /\ tasks' = [L \in kept |-> tasks[L]]
          /\ map' = [k \in {x \in DOMAIN map : map[x] \in kept} |-> map[k]]
          /\ lastCb' = [L \in DOMAIN lastCb \cap kept |-> lastCb[L]]
    /\ http' = NoHttp
    /\ UNCHANGED <<clock, issued, inv, cb, reqs, dl, del, list, batch>>

----------------------------------------------------------------------------
(* The token check in front of the routes, and POST /api/login *)

APP_TOKEN == "tok"              \* process.env.APP_TOKEN, set
ADMIN_USERNAME == "admin"       \* the defaults of the admin account
ADMIN_PASSWORD == "123456"

\* req.path as its segments
CreatePath == <<"api", "video", "create">>
ListPath == <<"api", "video", "list">>
DeletePath == <<"api", "tasks", "id">>
CallbackPath == <<"api", "callback">>
LoginPath == <<"api", "login">>
UploadsPath == <<"api", "uploads", "a.png">>
HealthPath == <<"health">>

\* app.use((req, res, next) => ...): "next" or "401"; token is the value of
\* the X-APP-TOKEN header, Null without the header
authMiddleware(path, token) ==
    IF ~(Len(path) >= 1 /\ path[1] = "api") THEN "next"
    ELSE IF \/ path = CallbackPath
            \/ path = LoginPath
            \/ (Len(path) >= 2 /\ path[2] = "uploads")
         THEN "next"
    ELSE IF token # APP_TOKEN THEN "401"
    ELSE "next"

\* a request reaches the middleware: it is answered 401, or handed to the
\* routes behind it; http then holds the request for the step of its handler
Middleware(path, token) ==
    /\ http' = IF authMiddleware(path, token) = "401"
               THEN [Reply("auth", 401) EXCEPT !.job = [path |-> path, token |-> token],
                                               !.body = [error |-> "Unauthorized"]]
               ELSE [Reply("next", 0) EXCEPT !.job = [path |-> path, token |-> token]]
    /\ UNCHANGED <<tasks, map, recent, clock, issued, inv, cb, reqs, dl, del, list, batch, lastCb>>

\* the middleware has just called next() for a request to path
Passed(path) == http.route = "next" /\ http.job.path = path

\* app.post("/api/login")
Login(username, password) ==
    /\ Passed(LoginPath)
    /\ reqs < MaxEvents
    /\ reqs' = reqs + 1
    /\ http' = IF username = ADMIN_USERNAME /\ password = ADMIN_PASSWORD
               THEN [Reply("login", 200) EXCEPT
                        !.job = [path |-> LoginPath, token |-> http.job.token,
                                 username |-> username, password |-> password],
                        !.body = [success |-> TRUE, token |-> APP_TOKEN]]
               ELSE [Reply("login", 401) EXCEPT
                        !.job = [path |-> LoginPath, token |-> http.job.token,
                                 username |-> username, password |-> password],
                        !.body = [success |-> FALSE, error |-> "Unauthorized"]]
    /\ UNCHANGED <<tasks, map, recent, clock, issued, inv, cb, dl, del, list, batch, lastCb>>

----------------------------------------------------------------------------
(* GET /api/video/list *)

IdleList == [pc |-> "idle", limit |-> Undef, ids |-> <<>>, tasks |-> <<>>, missingIds |-> <<>>]

\* Math.min(Math.max(Number(req.query.limit) || 50, 1), 200)
effectiveLimit(limit) == Clamp(limit, 50, 1, 200)

\* mutant of zRangeRev: the members by ascending score
RECURSIVE zRangeAsc(_, _)
zRangeAsc(r, n) ==
    IF r = {} \/ n = 0 THEN <<>>
    ELSE LET m == CHOOSE x \in r : \A y \in r : y >= x
         IN <<m>> \o zRangeAsc(r \ {m}, n - 1)

\* zRange(recentKey, 0, n - 1, { REV: true }): the n members of highest score,
\* highest first; the score of a member is the createdAt it was added with,
\* which NewTask takes from the same clock as the id
RECURSIVE zRangeRev(_, _)
zRangeRev(r, n) ==
    IF r = {} \/ n = 0 THEN <<>>
    ELSE LET m == CHOOSE x \in r : \A y \in r : y <= x
         IN <<m>> \o zRangeRev(r \ {m}, n - 1)

\* the fields of a record the list shows
listItem(task) ==
    [localTaskId |-> task.localTaskId, createdAt |-> task.createdAt, mode |-> task.mode,
     prompt |-> task.prompt, status |-> task.status, progress |-> task.progress,
     video_url |-> task.video_url, origin_video_url |-> task.origin_video_url,
     error |-> task.error]

\* rawTasks.forEach: the records found, in the order of ids, and the ids without
RECURSIVE foundTasks(_, _)
foundTasks(db, ids) ==
    IF ids = <<>> THEN <<>>
    ELSE (IF Head(ids) \in DOMAIN db THEN <<listItem(db[Head(ids)])>> ELSE <<>>)
         \o foundTasks(db, Tail(ids))

RECURSIVE missingOf(_, _)
missingOf(db, ids) ==
    IF ids = <<>> THEN <<>>
    ELSE (IF Head(ids) \in DOMAIN db THEN <<>> ELSE <<Head(ids)>>) \o missingOf(db, Tail(ids))

\* mutant of zRemMissing: nothing is removed
zRemNothing(r, missingIds) == r

\* zRem(recentKey, missingIds)
zRemMissing(r, missingIds) == r \ {missingIds[k] : k \in 1..Len(missingIds)}

listResponse(limit, ts) == [Reply("list", 200) EXCEPT !.job = [limit |-> limit], !.body = [tasks |-> ts]]

\* the request arrives; up to the reply of zRange
ListRequest(limit) ==
    /\ list.pc = "idle"
    /\ reqs < MaxEvents
    /\ reqs' = reqs + 1
    /\ LET ids == zRangeRev(recent, effectiveLimit(limit))
       IN IF ids = <<>>
          THEN http' = listResponse(limit, <<>>) /\ UNCHANGED list
          ELSE /\ list' = [IdleList EXCEPT !.pc = "mget", !.limit = limit, !.ids = ids]
               /\ http' = NoHttp
    /\ UNCHANGED <<tasks, map, recent, clock, issued, inv, cb, dl, del, batch, lastCb>>

\* the reply of mGet: the response when no record is missing, else zRem is sent
ListMGet ==
    /\ list.pc = "mget"
    /\ LET ts == foundTasks(tasks, list.ids)
           missingIds == missingOf(tasks, list.ids)
       IN IF missingIds = <<>>
          THEN http' = listResponse(list.limit, ts) /\ list' = IdleList
          ELSE /\ list' = [list EXCEPT !.pc = "zrem", !.tasks = ts, !.missingIds = missingIds]
               /\ http' = NoHttp
    /\ UNCHANGED <<tasks, map, recent, clock, issued, inv, cb, reqs, dl, del, batch, lastCb>>

\* zRem removes the ids without record; on its reply the response
ListPrune ==
    /\ list.pc = "zrem"
    /\ recent' = zRemMissing(recent, list.missingIds)
    /\ http' = listResponse(list.limit, list.tasks)
    /\ list' = IdleList
    /\ UNCHANGED <<tasks, map, clock, issued, inv, cb, reqs, dl, del, batch, lastCb>>

----------------------------------------------------------------------------
(* POST /api/video/batch_create *)

\* c: the integer part of normalizedConcurrency; half: whether it is c + 1/2
NoBatch == [pc |-> "none", concurrency |-> Undef, njobs |-> 0, c |-> 0, half |-> FALSE,
            order |-> <<>>]

\* the job bodies and concurrency fields of the batch requests the model sends
BatchJobInputs ==
    { Job("t2v", "p", Null, NoList, Undef, Null, Undef),
      Job("t2v", "p", Null, NoList, Num(10), "portrait", Num(2)),
      Job("i2v", "p", Null, NoList, Num(5), "16:9", Num(1)) }
ConcurrencyInputs == {Undef, Num(0), Num(1), Num(2), Num(40)}
JobLists == UNION { [1..n -> BatchJobInputs] : n \in 0..MaxJobs }

\* Math.min(Math.max(Number(concurrency) || 10, 1), 30)
normalizedConcurrency(concurrency) == Clamp(concurrency, 10, 1, 30)
normalizedConcurrencyHalf(concurrency) == ClampHalf(concurrency, 10, 1, 30)

JobsOf(b) == 1..b.njobs
\* the jobs the limiter is running
Active == {i \in JobsOf(batch) : inv[i].pc \in {"calls", "save"}}

RECURSIVE SumInflight(_)
SumInflight(S) == IF S = {} THEN 0 ELSE LET i == CHOOSE x \in S : TRUE
                                          IN inv[i].inflight + SumInflight(S \ {i})
\* kieClient.createTask calls of the batch request awaiting the provider
InFlight == SumInflight(JobsOf(batch))

\* the request arrives: 400 unless jobs is an array, else every job is handed
\* to the limiter; pLimit takes a positive integer (or Infinity) and throws a
\* TypeError for any other value, which ends the handler without a response
BatchReceive(concurrency, jobsIsArray, jobs) ==
    /\ batch.pc = "none"
    /\ reqs = 0
    /\ reqs' = 1
    /\ IF ~jobsIsArray
       THEN /\ http' = Reply("batch", 400)
            /\ batch' = [NoBatch EXCEPT !.pc = "done", !.concurrency = concurrency]
            /\ UNCHANGED inv
       ELSE IF normalizedConcurrencyHalf(concurrency)
       THEN /\ http' = NoHttp
            /\ batch' = [NoBatch EXCEPT !.pc = "done", !.concurrency = concurrency,
                                        !.njobs = Len(jobs),
                                        !.c = normalizedConcurrency(concurrency),
                                        !.half = TRUE]
            /\ UNCHANGED inv
       ELSE /\ http' = NoHttp
            /\ batch' = [NoBatch EXCEPT !.pc = "run", !.concurrency = concurrency,
                                        !.njobs = Len(jobs),
                                        !.c = normalizedConcurrency(concurrency)]
            /\ inv' = [i \in InvSlots |-> IF i <= Len(jobs)
                                          THEN [IdleInv EXCEPT !.pc = "queued", !.route = "batch",
                                                               !.job = jobs[i]]
                                          ELSE IdleInv]
    /\ UNCHANGED <<tasks, map, recent, clock, issued, cb, dl, del, list, lastCb>>

\* mutant of canStart: the jobs beyond the limit are never taken from the queue
canStartWithinLimitOnly(i) ==
    /\ i <= batch.c
    /\ \A j \in JobsOf(batch) : j < i => inv[j].pc # "queued"

\* p-limit: a queued job starts, in queue order, while fewer than c are running
canStart(i) ==
    /\ Cardinality(Active) < batch.c
    /\ \A j \in JobsOf(batch) : j < i => inv[j].pc # "queued"

JobStart(i) ==
    /\ batch.pc = "run"
    /\ i \in JobsOf(batch)
    /\ inv[i].pc = "queued"
    /\ canStart(i)
    /\ createOneStart(i, "batch", inv[i].job)
    /\ UNCHANGED <<tasks, map, recent, clock, issued, cb, reqs, dl, del, list, lastCb>>

\* mutant of jobResult: one job's error fails every job of the batch
jobResultSharedError(i) ==
    IF \A j \in JobsOf(batch) : inv[j].err.message = Null
    THEN [index |-> i - 1, ok |-> TRUE, task_ids |-> inv[i].task_ids, error |-> Null]
    ELSE [index |-> i - 1, ok |-> FALSE, task_ids |-> <<>>, error |-> "Failed to create task"]

\* what the limited function returns for job i: index is the position in jobs
jobResult(i) ==
    IF inv[i].err.message = Null
    THEN [index |-> i - 1, ok |-> TRUE, task_ids |-> inv[i].task_ids, error |-> Null]
    ELSE [index |-> i - 1, ok |-> FALSE, task_ids |-> <<>>, error |-> inv[i].err.message]

\* mutant of batchResults: results are collected as the jobs complete
batchResultsByCompletion == [p \in 1..Len(batch.order) |-> jobResult(batch.order[p])]

\* Promise.all over jobs.map(...): one result per job, in the order of jobs
batchResults == [i \in JobsOf(batch) |-> jobResult(i)]

BatchRespond ==
    /\ batch.pc = "run"
    /\ \A i \in JobsOf(batch) : inv[i].pc = "done"
    /\ http' = [Reply("batch", 200) EXCEPT !.accepted = batch.njobs, !.concurrency = batch.c,
                                           !.results = batchResults]
    /\ batch' = [batch EXCEPT !.pc = "done"]
    /\ UNCHANGED <<tasks, map, recent, clock, issued, inv, cb, reqs, dl, del, list, lastCb>>

----------------------------------------------------------------------------
(* The server between requests *)

Init ==
    /\ tasks = <<>>
    /\ map = <<>>
    /\ recent = {}
    /\ clock = 0
    /\ issued = 0
    /\ inv = [i \in InvSlots |-> IdleInv]
    /\ cb = [h \in CbSlots |-> IdleCb]
    /\ reqs = 0
    /\ dl = <<>>
    /\ del = [h \in DelSlots |-> IdleDel]
    /\ batch = NoBatch
    /\ list = IdleList
    /\ lastCb = <<>>
    /\ http = NoHttp

\* the ids a request can name: those handed out so far and one never handed out
KnownOrNot(n) == 0..(n + 1)

Next ==
    \/ \E job \in JobInputs : CreateRequest(1, job)
    \/ \E o \in ProviderOutcomes : ProviderReply(1, o)
    \/ CreatePersist(1)
    \/ \E h \in CbSlots, k \in KnownOrNot(issued) : \E ev \in CallbackEvents(k) : CbReceive(h, ev)
    \/ \E h \in CbSlots : CbGetTask(h)
    \/ \E h \in CbSlots : CbSave(h)
    \/ \E d \in 1..MaxEvents : DlGetTask(d)
    \/ \E d \in 1..MaxEvents, ok \in BOOLEAN : DlSave(d, ok)
    \/ \E h \in DelSlots, L \in KnownOrNot(clock) \ {NoId} : DeleteRequest(h, L)
    \/ \E h \in DelSlots : DeleteExec(h)
    \/ \E L \in 1..clock : ExpireTask(L)

Spec == Init /\ [][Next]_vars

\* one batch_create request from its arrival to its response
NextBatch ==
    \/ \E c \in ConcurrencyInputs, jobs \in JobLists : BatchReceive(c, TRUE, jobs)
    \/ \E c \in ConcurrencyInputs : BatchReceive(c, FALSE, <<>>)
    \/ \E i \in InvSlots : JobStart(i)
    \/ \E i \in InvSlots, o \in ProviderOutcomes : ProviderReply(i, o)
    \/ \E i \in InvSlots : CreatePersist(i)
    \/ BatchRespond

SpecBatch == Init /\ [][NextBatch]_vars

\* one batch request of jobs with one and with two provider calls, more jobs
\* than the limit admits at once, each call ending well or not
LiveJobLists ==
    UNION { [1..n -> { Job("t2v", "p", Null, NoList, Undef, Null, Undef),
                       Job("t2v", "p", Null, NoList, Num(10), "portrait", Num(2)) }]
            : n \in 0..MaxJobs }
LiveOutcomes == {"ok", "http_error"}

NextBatchLive ==
    \/ \E c \in {Num(1), Num(2)}, jobs \in LiveJobLists : BatchReceive(c, TRUE, jobs)
    \/ \E i \in InvSlots : JobStart(i)
    \/ \E i \in InvSlots, o \in LiveOutcomes : ProviderReply(i, o)
    \/ \E i \in InvSlots : CreatePersist(i)
    \/ BatchRespond

\* what goes on by itself once the request is in: the limiter starting a job,
\* a provider call ending, a store write ending, Promise.all resolving
BatchProgress ==
    \/ \E i \in InvSlots : JobStart(i)
    \/ \E i \in InvSlots, o \in LiveOutcomes : ProviderReply(i, o)
    \/ \E i \in InvSlots : CreatePersist(i)
    \/ BatchRespond

\* every provider call and every store write ends, and the limiter and the
\* handler run their continuations
SpecBatchLive == Init /\ [][NextBatchLive]_vars /\ WF_vars(BatchProgress)

\* the create route alone, over a wider range of request bodies
AspectInputs == {Null, "9:16", "square", "4:3", "constructor"}
DurationInputs == {Undef, Num(5), Num(10), Num(15), Num(7)}
ImageUrlInputs == {Null, "a"}
ImageUrlsInputs == {NoList, List(<<>>), List(<<"b">>), List(<<Null>>)}

CreateInputs ==
    { Job("t2v", "p", Null, NoList, d, a, Undef) : d \in DurationInputs, a \in AspectInputs }
    \cup { Job("i2v", "p", u, us, Undef, Null, Undef) : u \in ImageUrlInputs, us \in ImageUrlsInputs }
    \cup { Job("t2v", "p", Null, NoList, Undef, Null, Num(2)) }

NextCreate ==
    \/ \E job \in CreateInputs : CreateRequest(1, job)
    \/ \E o \in ProviderOutcomes : ProviderReply(1, o)
    \/ CreatePersist(1)

SpecCreate == Init /\ [][NextCreate]_vars

\* the create route alone, with local ids drawn from all the generator can give
NextIds ==
    \/ \E job \in JobInputs : CreateRequest(1, job)
    \/ \E o \in ProviderOutcomes : ProviderReply(1, o)
    \/ CreatePersistAny(1)

SpecIds == Init /\ [][NextIds]_vars

\* callbacks and downloads for created tasks, over a wider range of bodies
CallbackInputs(k) ==
    { Event(k, "success", Undef, ResultJson("json_urls", "u1"), Null, Null, Null),
      Event(k, "success", Num(50), ResultJson("json_url", "u2"), Null, Null, Null),
      Event(k, "completed", Num(50), ResultJson("http_text", "u3"), Null, Null, Null),
      Event(k, "success", Num(50), NoResult, Null, Null, Null),
      Event(k, "success", Undef, ResultJson("garbage", Null), Null, Null, Null),
      Event(k, "completed", Undef, ResultJson("json_urls", Null), Null, Null, Null),
      Event(k, "running", Num(50), NoResult, Null, Null, Null),
      Event(k, "generating", Undef, NoResult, Null, Null, Null),
      Event(k, "running", Num(150), NoResult, Null, Null, Null),
      Event(k, "fail", Undef, NoResult, "m", Null, Null),
      Event(k, "fail", Undef, NoResult, "a", "b", "c"),
      Event(k, "failed", Undef, NoResult, Null, "b", "c"),
      Event(k, "fail", Undef, NoResult, Null, Null, "c"),
      Event(k, "error", Undef, NoResult, Null, Null, Null) }

NextCallback ==
    \/ CreateRequest(1, Job("t2v", "p", Null, NoList, Undef, Null, Undef))
    \/ ProviderReply(1, "ok")
    \/ CreatePersist(1)
    \/ \E h \in CbSlots, k \in 1..issued : \E ev \in CallbackInputs(k) : CbReceive(h, ev)
    \/ \E h \in CbSlots : CbGetTask(h)
    \/ \E h \in CbSlots : CbSave(h)
    \/ \E d \in 1..MaxEvents : DlGetTask(d)
    \/ \E d \in 1..MaxEvents, ok \in BOOLEAN : DlSave(d, ok)

SpecCallback == Init /\ [][NextCallback]_vars

\* the list route, with creations and expiring task keys
LimitInputs == {Undef, Str("0"), Str("abc"), Str("1"), Str("2"), Str("-3"), Str("500")}

NextList ==
    \/ \E n \in {Undef, Num(2)} : CreateRequest(1, Job("t2v", "p", Null, NoList, Undef, Null, n))
    \/ ProviderReply(1, "ok")
    \/ CreatePersist(1)
    \/ \E L \in 1..clock : ExpireTask(L)
    \/ \E limit \in LimitInputs : ListRequest(limit)
    \/ ListMGet
    \/ ListPrune

SpecList == Init /\ [][NextList]_vars

\* the routes behind the token check
PathInputs == {CreatePath, ListPath, DeletePath, CallbackPath, LoginPath, UploadsPath, HealthPath}
TokenInputs == {Null, APP_TOKEN, "bad"}
UsernameInputs == {Null, ADMIN_USERNAME}
PasswordInputs == {Null, ADMIN_PASSWORD, "x"}

NextAuth ==
    \/ \E path \in PathInputs, token \in TokenInputs : Middleware(path, token)
    \/ \E username \in UsernameInputs, password \in PasswordInputs : Login(username, password)
    \/ Passed(CreatePath) /\ CreateRequest(1, Job("t2v", "p", Null, NoList, Undef, Null, Undef))
    \/ ProviderReply(1, "ok")
    \/ CreatePersist(1)
    \/ Passed(ListPath) /\ ListRequest(Undef)
    \/ ListMGet
    \/ Passed(DeletePath) /\ \E L \in KnownOrNot(clock) \ {NoId} : DeleteRequest(1, L)
    \/ DeleteExec(1)
    \/ Passed(CallbackPath) /\ \E k \in KnownOrNot(issued) :
            CbReceive(1, Event(k, "running", Num(50), NoResult, Null, Null, Null))
    \/ CbGetTask(1)
    \/ CbSave(1)

SpecAuth == Init /\ [][NextAuth]_vars

\* the batch route over a wider range of concurrency fields
WideConcurrencyInputs ==
    {Undef, JsNull, Num(0), Str("abc"), Num(-3), Half(0), Num(1), Num(2), Half(2),
     Num(30), Num(31), Num(40), Half(30), Str("5")}

NextConcurrency ==
    \/ \E c \in WideConcurrencyInputs, n \in 0..MaxJobs :
            BatchReceive(c, TRUE, [k \in 1..n |-> Job("t2v", "p", Null, NoList, Undef, Null, Undef)])
    \/ \E i \in InvSlots : JobStart(i)
    \/ \E i \in InvSlots : ProviderReply(i, "ok")
    \/ \E i \in InvSlots : CreatePersist(i)
    \/ BatchRespond

SpecConcurrency == Init /\ [][NextConcurrency]_vars

\* one task with its callbacks, its download and its deletion; no key expires,
\* so a record that is gone was deleted
DeleteEvents(k) ==
    { Event(k, "running", Num(50), NoResult, Null, Null, Null),
      Event(k, "success", Undef, ResultJson("json_urls", "u1"), Null, Null, Null) }

NextDelete ==
    \/ CreateRequest(1, Job("t2v", "p", Null, NoList, Undef, Null, Undef))
    \/ ProviderReply(1, "ok")
    \/ CreatePersist(1)
    \/ \E h \in CbSlots, k \in 1..issued : \E ev \in DeleteEvents(k) : CbReceive(h, ev)
    \/ \E h \in CbSlots : CbGetTask(h)
    \/ \E h \in CbSlots : CbSave(h)
    \/ \E d \in 1..MaxEvents : DlGetTask(d)
    \/ \E d \in 1..MaxEvents, ok \in BOOLEAN : DlSave(d, ok)
    \/ \E h \in DelSlots, L \in KnownOrNot(clock) \ {NoId} : DeleteRequest(h, L)
    \/ \E h \in DelSlots : DeleteExec(h)

SpecDelete == Init /\ [][NextDelete]_vars

\* one creation, callbacks for its tasks, and the expiry of the recency index
NextRecent ==
    \/ clock = 0 /\ CreateRequest(1, Job("t2v", "p", Null, NoList, Undef, Null, Num(2)))
    \/ ProviderReply(1, "ok")
    \/ CreatePersist(1)
    \/ \E h \in CbSlots, k \in 1..issued : \E ev \in DeleteEvents(k) : CbReceive(h, ev)
    \/ \E h \in CbSlots : CbGetTask(h)
    \/ \E h \in CbSlots : CbSave(h)
    \/ \E d \in 1..MaxEvents : DlGetTask(d)
    \/ \E d \in 1..MaxEvents, ok \in BOOLEAN : DlSave(d, ok)
    \/ ExpireRecent

SpecRecent == Init /\ [][NextRecent]_vars

\* callbacks that leave out the state or the progress, or carry null
FieldEvents(k) ==
    { Event(k, "success", Undef, NoResult, Null, Null, Null),
      Event(k, "running", Num(50), NoResult, Null, Null, Null),
      Event(k, "running", Undef, NoResult, Null, Null, Null),
      Event(k, "running", JsNull, NoResult, Null, Null, Null),
      Event(k, Null, Num(50), NoResult, Null, Null, Null),
      Event(k, Null, Undef, NoResult, Null, Null, Null) }

NextFields ==
    \/ CreateRequest(1, Job("t2v", "p", Null, NoList, Undef, Null, Undef))
    \/ ProviderReply(1, "ok")
    \/ CreatePersist(1)
    \/ \E h \in CbSlots, k \in 1..issued : \E ev \in FieldEvents(k) : CbReceive(h, ev)
    \/ \E h \in CbSlots : CbGetTask(h)
    \/ \E h \in CbSlots : CbSave(h)

SpecFields == Init /\ [][NextFields]_vars

----------------------------------------------------------------------------
(* Claims *)

Range(f) == {f[x] : x \in DOMAIN f}
TerminalStatus == {"success", "fail"}

\* C1: once the stored status of a task is success or fail, a callback that
\* carries a non-terminal state and is saved for that task leaves the stored
\* status as it was.
C1_TerminalSticky ==
    [][\A h \in CbSlots :
        (/\ cb[h].pc = "save" /\ cb'[h].pc = "idle"
         /\ ~Terminal(cb[h].ev)
         /\ cb[h].local \in DOMAIN tasks
         /\ tasks[cb[h].local].status \in TerminalStatus)
        => getTask(tasks', cb[h].local).status = tasks[cb[h].local].status]_vars

\* C2: no step takes the stored status of a task from running back to queued,
\* or from success or fail to any other value.
C2_StatusForwardOnly ==
    [][\A L \in (DOMAIN tasks) \cap (DOMAIN tasks') :
        /\ ~(tasks[L].status = "running" /\ tasks'[L].status = "queued")
        /\ tasks[L].status \in TerminalStatus => tasks'[L].status = tasks[L].status]_vars

\* C3: a callback whose provider id has no mapping entry, or whose mapped local
\* id has no record, is answered 200 and changes no task record, mapping entry
\* or recency entry and starts no download.
C3_UnknownCallbackNoOp ==
    [][( \/ /\ reqs' = reqs + 1
            /\ http'.route = "callback"
            /\ http'.taskId # NoId
            /\ getMap(map, http'.taskId) = NoId
         \/ \E h \in CbSlots : /\ cb[h].pc = "task"
                               /\ cb'[h].pc # "task"
                               /\ getTask(tasks, cb[h].local) = NoTask )
       => /\ http'.route = "callback"
          /\ http'.code = 200
          /\ UNCHANGED <<tasks, map, recent, dl>>]_vars

\* a callback was answered 200 for a provider id that is not mapped, while the
\* store holds a task
C3_Witness ==
    /\ http.route = "callback"
    /\ http.code = 200
    /\ http.taskId # NoId
    /\ getMap(map, http.taskId) = NoId
    /\ DOMAIN tasks # {}

\* C4: every response of POST /api/callback is 200.
C4_CallbackAlways200 == http.route = "callback" => http.code = 200

\* C5: when the same terminal callback event is saved a second time in a row
\* for a task, the stored status, progress, origin_video_url and error are
\* what they were after the first delivery.
C5_TerminalIdempotent ==
    \A L \in (DOMAIN lastCb) \cap (DOMAIN tasks) :
        lastCb[L].n = 2 => Visible(tasks[L]) = lastCb[L].after

\* a terminal event has just been saved twice in a row for a stored task
C5_Witness ==
    \E L \in (DOMAIN lastCb) \cap (DOMAIN tasks) : lastCb[L].n = 2 /\ http.route = "callback"

\* C6: the step in which createOne is rejected by a failed provider call, and
\* every later reply to that createOne, writes no task record, no mapping
\* entry and no recency entry.
C6_NoTaskOnProviderFailure ==
    [][\A i \in InvSlots :
        ( \/ inv[i].pc = "calls" /\ inv'[i].pc = "done"
          \/ inv[i].pc = "done" /\ inv'[i].pc = "done" /\ inv'[i].inflight < inv[i].inflight )
        => UNCHANGED <<tasks, map, recent>>]_vars

\* a create request was answered 502 after the provider had handed out an id
\* for it, and the store is empty
C6_Witness ==
    /\ http.route = "create"
    /\ http.code = 502
    /\ issued >= 1
    /\ DOMAIN tasks = {} /\ DOMAIN map = {} /\ recent = {}

\* C7: right after a successful create response, every returned local id has
\* a record, a mapping entry from its provider id and a recency entry, and its
\* status lookup gives queued, progress 0, no video_url and no error.
C7_CreatedIsQueued ==
    (http.route = "create" /\ http.code = 200) =>
        /\ Len(http.ids) >= 1
        /\ \A p \in 1..Len(http.ids) :
            LET L == http.ids[p]
            IN /\ L \in DOMAIN tasks
               /\ getMap(map, getTask(tasks, L).kieTaskId) = L
               /\ L \in recent
               /\ statusLookup(tasks, L) = [code |-> 200, status |-> "queued", progress |-> 0,
                                            video_url |-> Null, error |-> Null]

\* a create request with batchCount 2 was just answered with two task ids
C7_Witness == http.route = "create" /\ http.code = 200 /\ Len(http.ids) = 2

\* C8: the provider creation calls of a batch request that are in flight never
\* exceed the effective concurrency.
C8_InFlightWithinLimit == batch.pc = "run" => InFlight <= batch.c

\* C9: the batch response has one result per job, and the result at position
\* i carries index i (counted from 0).
C9_ResultsMirrorJobs ==
    (http.route = "batch" /\ http.code = 200) =>
        /\ Len(http.results) = batch.njobs
        /\ \A p \in 1..Len(http.results) : http.results[p].index = p - 1

\* the batch was answered after its second job completed before its first
C9_Witness ==
    /\ http.route = "batch" /\ http.code = 200
    /\ batch.order = <<2, 1>>
    /\ Len(http.results) = 2

\* whether job j passes validation and every one of its provider calls succeeded
OwnSuccess(j) ==
    /\ ValidationError(inv[j].job) = Null
    /\ Len(inv[j].ids) = normalizedBatchCount(inv[j].job)

\* the stored tasks that carry a provider id handed out to job j
TasksOf(j) == {L \in DOMAIN tasks : tasks[L].kieTaskId \in Range(inv[j].ids)}

\* C10: in the batch response, slot j reports ok exactly when job j's own
\* validation and provider calls succeeded, whatever happened to the other
\* jobs; the tasks of job j are then stored and returned, and otherwise slot j
\* carries an error and no task of job j is stored.
C10_BatchIsolation ==
    (http.route = "batch" /\ http.code = 200) =>
        \A j \in JobsOf(batch) :
            LET r == http.results[j]
            IN /\ r.index = j - 1
               /\ r.ok = OwnSuccess(j)
               /\ OwnSuccess(j) => /\ r.error = Null
                                   /\ Range(r.task_ids) = TasksOf(j)
                                   /\ Cardinality(TasksOf(j)) = normalizedBatchCount(inv[j].job)
               /\ ~OwnSuccess(j) => r.error # Null /\ TasksOf(j) = {}

\* the batch was answered with a failed job and a persisted sibling
C10_Witness ==
    /\ http.route = "batch" /\ http.code = 200
    /\ \E i, j \in JobsOf(batch) : /\ ~http.results[i].ok
                                   /\ http.results[j].ok
                                   /\ TasksOf(j) # {}

\* C11: a handler's save never erases a field another handler wrote after the
\* snapshot was read: a callback's save leaves the stored video_url as it is,
\* and a download's save leaves the stored status, progress and
\* origin_video_url as they are.
C11_NoLostUpdate ==
    [][/\ \A h \in CbSlots :
            (cb[h].pc = "save" /\ cb'[h].pc = "idle" /\ cb[h].local \in DOMAIN tasks)
            => getTask(tasks', cb[h].local).video_url = tasks[cb[h].local].video_url
       /\ (cb' = cb /\ Len(dl') < Len(dl))
            => \A L \in (DOMAIN tasks) \cap (DOMAIN tasks') :
                   /\ tasks'[L].status = tasks[L].status
                   /\ tasks'[L].progress = tasks[L].progress
                   /\ tasks'[L].origin_video_url = tasks[L].origin_video_url]_vars

C13_IdsOneToOne ==
    [][/\ \A K1, K2 \in DOMAIN map' : map'[K1] = map'[K2] => K1 = K2
       /\ inv[1].pc = "save" => \A L \in DOMAIN tasks : getTask(tasks', L) = tasks[L]]_vars

\* a step of SpecCreate in which a create request is received, and its body
CreateReceived == reqs' = reqs + 1
RequestedJob == IF http'.route = "create" THEN http'.job ELSE inv'[1].job
Rejected400 == http'.route = "create" /\ http'.code = 400 /\ inv'[1].pc # "calls"

\* the fixed tables of the interface
AspectTable ==
    [a \in {"16:9", "9:16", "1:1", "landscape", "portrait", "square"} |->
        CASE a \in {"16:9", "landscape"} -> "landscape"
          [] a \in {"9:16", "portrait"} -> "portrait"
          [] OTHER -> "square"]
DurationTable == [d \in {5, 10, 15} |-> IF d = 15 THEN "15" ELSE "10"]

\* C14: a create request whose aspect_ratio or duration is outside the fixed
\* tables is answered 400 with no provider call and no write, and an accepted
\* request sends the provider the table's value for both.
C14_TablesEnforced ==
    [][CreateReceived =>
        LET job == WithDefaults(RequestedJob)
            inTable == /\ job.aspect_ratio \in DOMAIN AspectTable
                       /\ job.duration.t = "num"
                       /\ job.duration.n \in DOMAIN DurationTable
        IN /\ ~inTable => Rejected400 /\ UNCHANGED <<tasks, map, recent, issued>>
           /\ (inTable /\ inv'[1].pc = "calls") =>
                  /\ taskPayload(job).aspect_ratio = AspectTable[job.aspect_ratio]
                  /\ taskPayload(job).n_frames = DurationTable[job.duration.n]]_vars

\* whether image_url or image_urls of the body holds a non-empty image reference
SuppliesImage(job) ==
    \/ job.image_url # Null
    \/ job.image_urls.isArray /\ \E k \in 1..Len(job.image_urls.items) : job.image_urls.items[k] # Null

\* C15: an image-to-video request is answered 400 exactly when neither
\* image_url nor image_urls holds a non-empty image reference, and an accepted
\* one sends the provider a non-empty image_urls list.
C15_ImageRequiredIff ==
    [][(CreateReceived /\ RequestedJob.mode = "i2v") =>
        /\ Rejected400 <=> ~SuppliesImage(RequestedJob)
        /\ inv'[1].pc = "calls" => Len(taskPayload(RequestedJob).image_urls) >= 1]_vars

\* C16: when a provider call of a create request fails, whatever the kind of
\* failure, the request is answered 502.
C16_ProviderFailureIs502 ==
    [][(inv[1].pc = "calls" /\ inv'[1].pc = "done" /\ http'.route = "create")
        => http'.code = 502]_vars

\* C17: the body of a successful create response has a field task_id, the
\* local id of a stored task.
C17_ResponseHasTaskId ==
    (http.route = "create" /\ http.code = 200) =>
        /\ "task_id" \in DOMAIN http.body
        /\ http.body.task_id \in DOMAIN tasks

\* handler h saves and answers in this step
Saves(h) == cb[h].pc = "save" /\ cb'[h].pc = "idle"
IsSuccess(ev) == normalizeTaskStatus(ev.state) = "success"

\* the url a resultJson carries in its resultUrls or resultUrl field
CarriedUrl(rj) ==
    IF rj.kind \in {"json_urls", "object_urls", "json_url", "object_url"} THEN rj.url ELSE Null

\* C18: the record a success callback saves has status success and progress
\* 100 whatever progress the event carried, and its origin_video_url is the
\* url the resultJson carries.
C18_SuccessForces100 ==
    [][\A h \in CbSlots : (Saves(h) /\ IsSuccess(cb[h].ev)) =>
        LET t == getTask(tasks', cb[h].local)
            url == CarriedUrl(cb[h].ev.resultJson)
        IN /\ t.status = "success"
           /\ t.progress = 100
           /\ url # Null => t.origin_video_url = url]_vars

\* a success event that carried progress 50 and a url has just been saved
C18_Witness ==
    /\ http.route = "callback" /\ http.code = 200
    /\ \E L \in (DOMAIN lastCb) \cap (DOMAIN tasks) :
        /\ IsSuccess(lastCb[L].ev)
        /\ lastCb[L].ev.progress = Num(50)
        /\ CarriedUrl(lastCb[L].ev.resultJson) # Null
        /\ tasks[L].progress = 100
        /\ tasks[L].origin_video_url = CarriedUrl(lastCb[L].ev.resultJson)

\* C19: a success callback without an extractable url saves status success and
\* progress 100, keeps origin_video_url, sets the error message only when no
\* error was recorded, starts no download and is answered 200.
C19_SuccessWithoutUrl ==
    [][\A h \in CbSlots :
        (Saves(h) /\ IsSuccess(cb[h].ev) /\ parseResultVideoUrl(cb[h].ev.resultJson) = Null) =>
        LET t == getTask(tasks', cb[h].local)
            snap == cb[h].snap
        IN /\ t.status = "success"
           /\ t.progress = 100
           /\ t.origin_video_url = snap.origin_video_url
           /\ t.error = IF snap.error # Null THEN snap.error
                        ELSE "Missing origin video url in callback"
           /\ dl' = dl
           /\ http'.route = "callback" /\ http'.code = 200]_vars

\* a success without url has just been saved for a task that had failed: the
\* earlier error is kept and no download runs
C19_Witness ==
    /\ http.route = "callback" /\ http.code = 200
    /\ dl = <<>>
    /\ \E L \in (DOMAIN lastCb) \cap (DOMAIN tasks) :
        /\ IsSuccess(lastCb[L].ev)
        /\ parseResultVideoUrl(lastCb[L].ev.resultJson) = Null
        /\ tasks[L].status = "success"
        /\ tasks[L].error = "m"

\* C20: the step that saves a success with a url answers 200 with the success
\* stored and the download started and still running, and no step of a
\* download sends a response.
C20_ResponseBeforeDownload ==
    [][/\ \A h \in CbSlots : (Saves(h) /\ StartsDownload(cb[h].ev)) =>
            /\ http'.route = "callback" /\ http'.code = 200
            /\ getTask(tasks', cb[h].local).status = "success"
            /\ Len(dl') = Len(dl) + 1
            /\ dl'[Len(dl')].pc = "fetch"
            /\ dl'[Len(dl')].local = cb[h].local
       /\ (cb' = cb /\ dl' # dl) => http' = NoHttp]_vars

\* the callback has been answered while its download is still running and
\* the task has no video_url yet
C20_Witness ==
    /\ http.route = "callback" /\ http.code = 200
    /\ \E d \in DOMAIN dl :
        /\ dl[d].pc = "fetch"
        /\ getMap(map, http.taskId) = dl[d].local
        /\ getTask(tasks, dl[d].local).status = "success"
        /\ getTask(tasks, dl[d].local).video_url = Null

\* the first non-empty value of a list of candidate fields, d when there is none
RECURSIVE FirstNonEmpty(_, _)
FirstNonEmpty(xs, d) ==
    IF xs = <<>> THEN d
    ELSE IF Head(xs) # Null THEN Head(xs) ELSE FirstNonEmpty(Tail(xs), d)

\* C21: the record a fail callback saves has status fail, and its error is the
\* first non-empty of the event's failMsg, msg and failCode, or "Kie task
\* failed" when all three are empty.
C21_FailMessageOrder ==
    [][\A h \in CbSlots : (Saves(h) /\ normalizeTaskStatus(cb[h].ev.state) = "fail") =>
        LET t == getTask(tasks', cb[h].local)
            ev == cb[h].ev
        IN /\ t.status = "fail"
           /\ t.error = FirstNonEmpty(<<ev.failMsg, ev.msg, ev.failCode>>, "Kie task failed")]_vars

\* a fail event without failMsg, with msg and failCode, has just been saved:
\* the stored error is its msg
C21_Witness ==
    /\ http.route = "callback" /\ http.code = 200
    /\ \E L \in (DOMAIN lastCb) \cap (DOMAIN tasks) :
        /\ lastCb[L].ev.failMsg = Null
        /\ lastCb[L].ev.msg = "b"
        /\ lastCb[L].ev.failCode = "c"
        /\ tasks[L].status = "fail"
        /\ tasks[L].error = "b"

\* download d writes the record of its failure branch in this step
FailedDownloadSaves(d) ==
    /\ dl[d].pc = "save"
    /\ cb' = cb
    /\ dl' = Without(dl, d)
    /\ getTask(tasks', dl[d].local) = applyDownload(dl[d].snap, FALSE)

\* C22: the write of a failed download leaves the status, progress and
\* origin_video_url that are in the store when it writes, and sets the error
\* only when the store holds none.
C22_FailedDownloadKeepsStatus ==
    [][\A d \in DOMAIN dl : (FailedDownloadSaves(d) /\ dl[d].local \in DOMAIN tasks) =>
        LET old == tasks[dl[d].local]
            new == getTask(tasks', dl[d].local)
        IN /\ new.status = old.status
           /\ new.progress = old.progress
           /\ new.origin_video_url = old.origin_video_url
           /\ new.error = IF old.error # Null THEN old.error ELSE "Failed to download video"]_vars

\* C23: once a download has stored the local video_url of a task, the
\* video_url stays set in every later state in which the task is stored.
C23_VideoUrlStays ==
    [][\A L \in (DOMAIN tasks) \cap (DOMAIN tasks') :
        tasks[L].video_url # Null => tasks'[L].video_url # Null]_vars

\* C24: a download is started only by the save of a success callback that
\* carries a url, for the task of that callback, and each such save starts
\* exactly one.
C24_OneDownloadPerSuccess ==
    [][/\ Len(dl') > Len(dl) =>
            \E h \in CbSlots : /\ Saves(h)
                               /\ IsSuccess(cb[h].ev)
                               /\ CarriedUrl(cb[h].ev.resultJson) # Null
                               /\ dl' = Append(dl, Download(cb[h].local, CarriedUrl(cb[h].ev.resultJson)))
       /\ \A h \in CbSlots :
            (Saves(h) /\ IsSuccess(cb[h].ev) /\ CarriedUrl(cb[h].ev.resultJson) # Null)
            => Len(dl') = Len(dl) + 1]_vars

\* two success callbacks with a url have been saved for one task and two
\* downloads run for it
C24_Witness ==
    /\ Len(dl) = 2
    /\ dl[1].local = dl[2].local
    /\ http.route = "callback" /\ http.code = 200

\* the mGet reply is processed in this step; the zRem reply is
ListExamines == list.pc = "mget" /\ list'.pc # "mget"
ListPrunes == list.pc = "zrem" /\ list'.pc # "zrem"
ListAnswers == http'.route = "list" /\ http'.code = 200
IdsOf(ts) == {ts[k].localTaskId : k \in 1..Len(ts)}

\* C25: a list call that finds recency entries without record still answers
\* 200; the tasks it collects are exactly the examined ids that have a record,
\* each once and with the fields of its record; it answers at once when no
\* record is missing, and otherwise its zRem removes every examined id whose
\* record was missing and removes nothing else.
C25_ListHeals ==
    [][/\ ListExamines =>
            LET examined == Range(list.ids)
                have == examined \cap DOMAIN tasks
                shown == IF http'.route = "list" THEN http'.body.tasks ELSE list'.tasks
            IN /\ IdsOf(shown) = have
               /\ Len(shown) = Cardinality(have)
               /\ \A k \in 1..Len(shown) :
                    /\ shown[k].status = tasks[shown[k].localTaskId].status
                    /\ shown[k].prompt = tasks[shown[k].localTaskId].prompt
                    /\ shown[k].createdAt = tasks[shown[k].localTaskId].createdAt
               /\ have = examined => (ListAnswers /\ recent' = recent)
               /\ have # examined =>
                    (list'.pc = "zrem" /\ Range(list'.missingIds) = examined \ have)
       /\ ListPrunes =>
            /\ ListAnswers
            /\ http'.body.tasks = list.tasks
            /\ Range(list.missingIds) \cap recent' = {}
            /\ (recent \ recent') \subseteq Range(list.missingIds)]_vars

\* a list call has just answered with a task, and an id that was created is
\* in neither the records nor the recency index: its entry was pruned
C25_Witness ==
    /\ http.route = "list" /\ http.code = 200
    /\ Len(http.body.tasks) >= 1
    /\ \E L \in 1..clock : L \notin DOMAIN tasks /\ L \notin recent

\* the effective limit of the limit values LimitInputs holds: 50 when absent,
\* zero or non-numeric, else the number clamped to 1..200
EffectiveLimitTable(limit) ==
    CASE limit = Undef -> 50
      [] limit = Str("0") -> 50
      [] limit = Str("abc") -> 50
      [] limit = Str("1") -> 1
      [] limit = Str("2") -> 2
      [] limit = Str("-3") -> 1
      [] limit = Str("500") -> 200

Deletes(h) == del[h].pc = "exec" /\ del'[h].pc = "idle"

\* C27: a delete of an id that has a record goes on to the MULTI; the step of
\* the MULTI leaves no record, no mapping and no recency entry of the id,
\* leaves those of other ids alone and answers 200 {success:true, id}; a 404 is
\* given only for an id without record and changes nothing in the store.
C27_DeleteRemovesAll ==
    [][/\ \A h \in DelSlots :
            /\ (del[h].pc = "idle" /\ del'[h].pc = "exec") =>
                    (del'[h].id \in DOMAIN tasks /\ store' = store)
            /\ Deletes(h) =>
                LET L == del[h].id
                IN /\ L \notin DOMAIN tasks'
                   /\ L \notin recent'
                   /\ \A k \in DOMAIN map' : map'[k] # L
                   /\ \A x \in DOMAIN tasks \ {L} : x \in DOMAIN tasks' /\ tasks'[x] = tasks[x]
                   /\ recent' = recent \ {L}
                   /\ \A k \in DOMAIN map : map[k] # L => (k \in DOMAIN map' /\ map'[k] = map[k])
                   /\ http'.route = "delete" /\ http'.code = 200
                   /\ http'.body = [success |-> TRUE, id |-> L]
       /\ (http'.route = "delete" /\ http'.code = 404 /\ reqs' # reqs) =>
            (http'.job.id \notin DOMAIN tasks /\ store' = store)
       /\ (http'.route = "delete" /\ http'.code = 200) => \E h \in DelSlots : Deletes(h)]_vars

\* a delete has just answered success for a task that was created, and the id
\* is in none of the three key spaces
C27_Witness ==
    /\ http.route = "delete" /\ http.code = 200
    /\ http.body.id \in 1..clock
    /\ http.body.id \notin DOMAIN tasks
    /\ http.body.id \notin recent
    /\ \A k \in DOMAIN map : map[k] # http.body.id

\* C28: a request to an /api path other than the callback route that carries
\* no X-APP-TOKEN header, or a value other than APP_TOKEN, is not handed to a
\* route, and a response to such a request is a 401 without the token in it.
C28_TokenRequired ==
    /\ (/\ http.route = "next"
        /\ Len(http.job.path) >= 1 /\ http.job.path[1] = "api"
        /\ http.job.path # CallbackPath)
       => http.job.token = APP_TOKEN
    /\ (http.route = "login" /\ http.job.token # APP_TOKEN)
       => (http.code = 401 /\ "token" \notin DOMAIN http.body)

StatusEnum == {"queued", "running", "success", "fail"}

\* C29: the stored status of every task is one of queued, running, success,
\* fail.
C29_StatusInEnum == \A L \in DOMAIN tasks : tasks[L].status \in StatusEnum

\* C30: the stored progress of every task is a number from 0 to 100.
C30_ProgressInRange == \A L \in DOMAIN tasks : tasks[L].progress \in 0..100

\* the fields a task gets at creation
SameCreationFields(a, b) ==
    /\ a.localTaskId = b.localTaskId
    /\ a.kieTaskId = b.kieTaskId
    /\ a.createdAt = b.createdAt
    /\ a.mode = b.mode
    /\ a.prompt = b.prompt
    /\ a.params = b.params

\* C31: no step changes the localTaskId, kieTaskId, createdAt, mode, prompt
\* or params of a stored task; a record that appears in a step is either
\* created by createOne in that step or written by a callback or a download
\* with the creation fields of the record it had read.
C31_CreationFieldsKept ==
    [][\A L \in DOMAIN tasks' :
         IF L \in DOMAIN tasks THEN SameCreationFields(tasks[L], tasks'[L])
         ELSE \/ \E i \in InvSlots : inv[i].pc = "save" /\ inv'[i].pc # "save"
              \/ \E h \in CbSlots : /\ Saves(h) /\ cb[h].local = L
                                    /\ SameCreationFields(cb[h].snap, tasks'[L])
              \/ \E d \in DOMAIN dl : /\ dl[d].pc = "save" /\ dl[d].local = L
                                      /\ SameCreationFields(dl[d].snap, tasks'[L])]_vars

\* a task has gone through a success callback and a stored download: its
\* status, progress and both urls differ from those it was created with
C31_Witness ==
    \E L \in DOMAIN tasks :
        /\ tasks[L].status = "success" /\ tasks[L].progress = 100
        /\ tasks[L].origin_video_url # Null /\ tasks[L].video_url = "file"
        /\ tasks[L].localTaskId = L /\ tasks[L].createdAt = L

ConcurrencyTable(c) ==
    CASE c \in {Undef, JsNull, Num(0), Str("abc")} -> 10
      [] c \in {Num(-3), Half(0), Num(1)} -> 1
      [] c \in {Num(30), Num(31), Num(40), Half(30)} -> 30
      [] c = Num(2) -> 2
      [] c = Str("5") -> 5
      [] c = Half(2) -> 2

\* C33: the concurrency computed for a batch request is an integer from 1 to
\* 30, the one the table gives, and the concurrency field of the response is
\* that number.
C33_ConcurrencyClamped ==
    /\ (batch.pc \in {"run", "done"} /\ batch.c # 0) =>
            /\ ~batch.half
            /\ batch.c \in 1..30
            /\ batch.c = ConcurrencyTable(batch.concurrency)
    /\ (http.route = "batch" /\ http.code = 200) => http.concurrency = batch.c

\* C34: a local id that was created and has no record (in SpecDelete: it was
\* deleted) gets no record and no mapping entry in any later step, so its
\* status lookup stays 404.
C34_DeletedStaysDeleted ==
    [][\A L \in 1..clock :
         L \notin DOMAIN tasks =>
            /\ L \notin DOMAIN tasks'
            /\ \A k \in DOMAIN map' : map'[k] # L
            /\ statusLookup(tasks', L).code = 404]_vars

\* C35: every task that has a record has an entry in the recency index.
C35_LiveIsListable == \A L \in DOMAIN tasks : L \in recent

\* C36: every task whose stored status is success has stored progress 100.
C36_SuccessIs100 == \A L \in DOMAIN tasks : tasks[L].status = "success" => tasks[L].progress = 100

\* C37: every task that has an origin_video_url or a video_url has status
\* success.
C37_UrlOnlyOnSuccess ==
    \A L \in DOMAIN tasks :
        (tasks[L].origin_video_url # Null \/ tasks[L].video_url # Null) => tasks[L].status = "success"

\* C38: the save of a callback without state keeps the status of the record
\* the handler read, and the save of a callback whose progress is absent or
\* null keeps its progress, unless the state is success.
C38_AbsentFieldsKeep ==
    [][\A h \in CbSlots :
         Saves(h) =>
            LET L == cb[h].local
                ev == cb[h].ev
            IN /\ ev.state = Null => tasks'[L].status = cb[h].snap.status
               /\ (ev.progress \in {Undef, JsNull} /\ ~IsSuccess(ev)) =>
                      tasks'[L].progress = cb[h].snap.progress]_vars

\* the batchCount of the job bodies JobInputs holds, clamped to 1..20
BatchCountTable(job) ==
    CASE job.batchCount = Undef -> 1
      [] job.batchCount = Num(1) -> 1
      [] job.batchCount = Num(2) -> 2

\* C39: the step in which a createOne with batchCount n persists answers with
\* n distinct local ids that had no record before, each now with a record and
\* a mapping entry from a provider id of its own, and adds exactly n records;
\* the step in which a provider call fails it writes nothing and answers with
\* one error.
C39_AllOrNothing ==
    [][/\ (inv[1].pc = "save" /\ inv'[1].pc = "done") =>
            LET n == BatchCountTable(inv[1].job)
                ids == http'.ids
            IN /\ http'.route = "create" /\ http'.code = 200
               /\ Len(ids) = n
               /\ Cardinality(Range(ids)) = n
               /\ Cardinality(DOMAIN tasks' \ DOMAIN tasks) = n
               /\ \A p \in 1..Len(ids) :
                    /\ ids[p] \notin DOMAIN tasks
                    /\ ids[p] \in DOMAIN tasks'
                    /\ getMap(map', tasks'[ids[p]].kieTaskId) = ids[p]
               /\ Cardinality({K \in DOMAIN map' \ DOMAIN map : map'[K] \in Range(ids)}) = n
               /\ \A p, q \in 1..Len(ids) :
                    p # q => tasks'[ids[p]].kieTaskId # tasks'[ids[q]].kieTaskId
       /\ (inv[1].pc = "calls" /\ inv'[1].pc = "done") =>
            /\ store' = store
            /\ http'.route = "create" /\ http'.code # 200
            /\ DOMAIN http'.body = {"error"}]_vars

====
